---- MODULE Spec2Model ----
(***************************************************************************)
(* Model of the two pipelines of the repository:                           *)
(*   - whisper-transcriber/.../faster_whisper/utils.py: format_timestamp   *)
(*     and the ResultWriter hierarchy (WriteTXT, WriteVTT, WriteSRT,       *)
(*     WriteTSV, WriteJSON);                                               *)
(*   - pdf-text-converter/.../metadata.py: to_date, get_document_metadata. *)
(*                                                                         *)
(* Text is a sequence of one-character strings.  Bytes are a sequence of   *)
(* byte tokens (ASCII bytes are written as their character).  A time in    *)
(* seconds is an integer count of half milliseconds, so that               *)
(* round(seconds * 1000) has ties to round.                                *)
(***************************************************************************)
EXTENDS Integers, Sequences, FiniteSets, TLC

VARIABLES
  \* format_timestamp
  tsPc, seconds, always_include_hours, decimal_marker, tsResult,
  \* ResultWriter.__call__ / write_result
  pc, writer, segments, handle, closes, writes, flushed, idx, col,
  attempts, raised, propagated,
  \* get_document_metadata
  mdPc, info, properties, pages, pending, metadata

tsVars == <<tsPc, seconds, always_include_hours, decimal_marker, tsResult>>
wrVars == <<pc, writer, segments, handle, closes, writes, flushed, idx, col,
            attempts, raised, propagated>>
mdVars == <<mdPc, info, properties, pages, pending, metadata>>
vars == <<tsVars, wrVars, mdVars>>

-----------------------------------------------------------------------------
(* Bounds of the model. *)

\* Largest hour count of a format_timestamp input (the inputs also hold 0..2).
MaxHours == 101
\* Largest number of segments of a transcription result.
MaxSegs == 2
\* Largest page count handed to get_document_metadata (the other is 1).
MaxPages == 3

-----------------------------------------------------------------------------
(* Text helpers. *)

Digits == <<"0", "1", "2", "3", "4", "5", "6", "7", "8", "9">>

DigitSet == {Digits[d] : d \in 1..10}

IsDigit(c) == c \in DigitSet

DigitOf == [c \in DigitSet |-> (CHOOSE d \in 1..10 : Digits[d] = c) - 1]

DigitVal(c) == DigitOf[c]

\* str(n) for an integer n >= 0.
RECURSIVE IntStr(_)
IntStr(n) == IF n < 10 THEN <<Digits[n + 1]>>
             ELSE IntStr(n \div 10) \o <<Digits[(n % 10) + 1]>>

\* int(s) for a non-empty string of digits.
RECURSIVE ParseNat(_)
ParseNat(s) == IF Len(s) = 0 THEN 0
               ELSE 10 * ParseNat(SubSeq(s, 1, Len(s) - 1)) + DigitVal(s[Len(s)])

AllDigits(s) == \A k \in 1..Len(s) : IsDigit(s[k])

\* f"{n:0<width>d}" for n >= 0: zero-padded to at least width digits.
RECURSIVE ZeroPad(_, _)
ZeroPad(s, width) == IF Len(s) >= width THEN s ELSE ZeroPad(<<"0">> \o s, width)

\* The whitespace str.strip() removes, among the characters of the model.
Whitespace == {" ", "\t", "\n"}

RECURSIVE LStrip(_)
LStrip(s) == IF Len(s) > 0 /\ s[1] \in Whitespace THEN LStrip(Tail(s)) ELSE s

RECURSIVE RStrip(_)
RStrip(s) == IF Len(s) > 0 /\ s[Len(s)] \in Whitespace
             THEN RStrip(SubSeq(s, 1, Len(s) - 1)) ELSE s

\* str.strip()
Strip(s) == RStrip(LStrip(s))

StartsWith(s, p) == Len(s) >= Len(p) /\ SubSeq(s, 1, Len(p)) = p

\* str.replace(old, new): left to right, over non-overlapping occurrences;
\* the text put in place of an occurrence is not scanned again.
RECURSIVE Replace(_, _, _)
Replace(s, old, new) ==
  IF Len(s) < Len(old) THEN s
  ELSE IF StartsWith(s, old)
       THEN new \o Replace(SubSeq(s, Len(old) + 1, Len(s)), old, new)
       ELSE <<s[1]>> \o Replace(Tail(s), old, new)

\* Whether p occurs in s.
Contains(s, p) == \E k \in 1..(Len(s) - Len(p) + 1) : SubSeq(s, k, k + Len(p) - 1) = p

\* The positions of character c in s.
Positions(s, c) == {k \in 1..Len(s) : s[k] = c}

RECURSIVE Flatten(_)
Flatten(ss) == IF Len(ss) = 0 THEN <<>> ELSE Head(ss) \o Flatten(Tail(ss))

\* str.split(sep) for a one-character separator.
RECURSIVE Split(_, _)
Split(s, sep) ==
  IF Positions(s, sep) = {} THEN <<s>>
  ELSE LET p == CHOOSE k \in Positions(s, sep) : \A j \in Positions(s, sep) : k <= j
       IN <<SubSeq(s, 1, p - 1)>> \o Split(SubSeq(s, p + 1, Len(s)), sep)

-----------------------------------------------------------------------------
(* format_timestamp (utils.py 28-41). *)

MsPerHour == 3600000
MsPerMinute == 60000
MsPerSecond == 1000

\* round(seconds * 1000.0): the nearest integer, a tie going to the even one.
\* halfms is the time in half milliseconds.
RoundMs(halfms) ==
  LET q == halfms \div 2
  IN IF halfms % 2 = 0 THEN q ELSE IF q % 2 = 0 THEN q ELSE q + 1

\* HoursMarker with the hour count cut to the two digits of the pattern.
HoursMarkerTruncated(hours, always) ==
  IF always \/ hours > 0 THEN ZeroPad(IntStr(hours % 100), 2) \o <<":">> ELSE <<>>

\* f"{hours:02d}:" if always_include_hours or hours > 0 else ""
HoursMarker(hours, always) ==
  IF always \/ hours > 0 THEN ZeroPad(IntStr(hours), 2) \o <<":">> ELSE <<>>

\* format_timestamp without "milliseconds -= minutes * 60_000".
format_timestamp_minutes_kept(secs, always, marker) ==
  LET ms0 == RoundMs(secs)
      hours == ms0 \div MsPerHour
      ms1 == ms0 - hours * MsPerHour
      minutes == ms1 \div MsPerMinute
      sec == ms1 \div MsPerSecond
      ms3 == ms1 - sec * MsPerSecond
  IN HoursMarker(hours, always) \o ZeroPad(IntStr(minutes), 2) \o <<":">>
       \o ZeroPad(IntStr(sec), 2) \o marker \o ZeroPad(IntStr(ms3), 3)

format_timestamp(secs, always, marker) ==
  LET ms0 == RoundMs(secs)
      hours == ms0 \div MsPerHour
      ms1 == ms0 - hours * MsPerHour
      minutes == ms1 \div MsPerMinute
      ms2 == ms1 - minutes * MsPerMinute
      sec == ms2 \div MsPerSecond
      ms3 == ms2 - sec * MsPerSecond
  IN HoursMarker(hours, always) \o ZeroPad(IntStr(minutes), 2) \o <<":">>
       \o ZeroPad(IntStr(sec), 2) \o marker \o ZeroPad(IntStr(ms3), 3)

\* The times format_timestamp is applied to, in half milliseconds: every
\* combination of the hour, minute, second and millisecond values below, on a
\* millisecond or half way to the next.
Hours == (0..2) \cup (98..MaxHours)
TimeInputs ==
  {2 * (h * MsPerHour + m * MsPerMinute + s * MsPerSecond + ms) + half :
     h \in Hours, m \in {0, 1, 59}, s \in {0, 1, 59},
     ms \in {0, 1, 500, 998, 999}, half \in {0, 1}}

Markers == {<<".">>, <<",">>}

TsIdle ==
  /\ tsPc = "idle" /\ seconds = 0 /\ always_include_hours = FALSE
  /\ decimal_marker = <<".">> /\ tsResult = <<>>

TsInit ==
  /\ tsPc = "call"
  /\ seconds \in TimeInputs
  /\ always_include_hours \in BOOLEAN
  /\ decimal_marker \in Markers
  /\ tsResult = <<>>

FormatTimestamp ==
  /\ tsPc = "call"
  /\ tsResult' = format_timestamp(seconds, always_include_hours, decimal_marker)
  /\ tsPc' = "return"
  /\ UNCHANGED <<seconds, always_include_hours, decimal_marker>>
  /\ UNCHANGED <<wrVars, mdVars>>

-----------------------------------------------------------------------------
(* The transcription results handed to a writer. *)

\* Segment texts: text to trim, arrows (alone, inside text, and after one or
\* two more dashes), tabs, and a line break inside the text.
Texts ==
  { <<" ", "a", " ", "b", " ">>,
    <<"-", "-", ">">>,
    <<"a", "-", "-", ">", "b">>,
    <<"-", "-", "-", ">">>,
    <<"-", "-", "-", "-", ">">>,
    <<"\t", "a", "\t", "b", "\n">>,
    <<"a", "\n", "b">> }

\* (start, end) in half milliseconds: 0 s and 0.0015 s; 3661.5 s and 100 h.
Times == { <<0, 3>>, <<7323000, 720000000>> }

Segments == {[start |-> t[1], end |-> t[2], text |-> x] : t \in Times, x \in Texts}

RECURSIVE SeqsUpTo(_, _)
SeqsUpTo(S, n) ==
  IF n = 0 THEN {<<>>}
  ELSE LET shorter == SeqsUpTo(S, n - 1)
       IN shorter \cup {Append(q, e) : q \in {r \in shorter : Len(r) = n - 1}, e \in S}

Results == SeqsUpTo(Segments, MaxSegs)

\* The extension of each concrete writer names it.
Writers == {"txt", "vtt", "srt", "tsv", "json"}
Textual == {"txt", "vtt", "srt", "tsv"}

-----------------------------------------------------------------------------
(* What each print call of the write_result methods writes. *)

Arrow == <<"-", "-", ">">>
ShortArrow == <<"-", ">">>
Tab == <<"\t">>
Space == <<" ">>
NL == <<"\n">>

\* WriteTXT: print(segment.text.strip(), file=file, flush=True)
TxtLine(seg) == Strip(seg.text) \o NL

\* WriteVTT: print("WEBVTT\n", file=file)
VttHeader == <<"W", "E", "B", "V", "T", "T", "\n">> \o NL

\* segment.text.strip().replace('-->', '->')
CueText(text) == Replace(Strip(text), Arrow, ShortArrow)

\* WriteVTT: the print call of one segment.
VttCue(seg) ==
  format_timestamp(seg.start, FALSE, <<".">>) \o Space \o Arrow \o Space
    \o format_timestamp(seg.end, FALSE, <<".">>) \o NL
    \o CueText(seg.text) \o NL \o NL

\* WriteSRT: the print call of the i-th segment, i counted by enumerate.
SrtCue(i, seg) ==
  IntStr(i) \o NL
    \o format_timestamp(seg.start, TRUE, <<",">>) \o Space \o Arrow \o Space
    \o format_timestamp(seg.end, TRUE, <<",">>) \o NL
    \o CueText(seg.text) \o NL \o NL

\* enumerate without start=1: counting from 0.
EnumerateFromZero(n) == n - 1

\* enumerate(result["segments"], start=1): the index of the n-th segment.
EnumerateIndex(n) == n

\* WriteTSV: print("start", "end", "text", sep="\t", file=file)
TsvHeader == <<"s", "t", "a", "r", "t">> \o Tab \o <<"e", "n", "d">> \o Tab
               \o <<"t", "e", "x", "t">> \o NL

\* TsvText without the replace.
TsvTextTabsKept(text) == Strip(text)

\* segment.text.strip().replace("\t", " ")
TsvText(text) == Replace(Strip(text), Tab, Space)

\* WriteTSV: the three print calls of one segment, c = 0, 1, 2.
TsvCell(seg, c) ==
  CASE c = 0 -> IntStr(RoundMs(seg.start)) \o Tab
    [] c = 1 -> IntStr(RoundMs(seg.end)) \o Tab
    [] OTHER -> TsvText(seg.text) \o NL

\* WriteJSON: json.dump(result, file).  The serialisation is the json
\* library's; the model keeps only that it is written to the file.
JsonDump(result) == [k \in 1..Len(result) |-> "json(segment)"]

\* The header a writer prints before its loop.
Header(w) == CASE w = "vtt" -> VttHeader [] w = "tsv" -> TsvHeader [] OTHER -> <<>>

\* Everything a writer prints for the n-th segment of the result.
SegmentRendering(w, result, n) ==
  CASE w = "txt" -> TxtLine(result[n])
    [] w = "vtt" -> VttCue(result[n])
    [] w = "srt" -> SrtCue(EnumerateIndex(n), result[n])
    [] OTHER -> TsvCell(result[n], 0) \o TsvCell(result[n], 1) \o TsvCell(result[n], 2)

-----------------------------------------------------------------------------
(* ResultWriter.__call__ (utils.py 49-54) and the write_result methods.    *)
(* writes is the sequence of what the print calls wrote to the file        *)
(* object; its first `flushed` entries have reached the file (a print with *)
(* flush=True flushes, and so does closing the handle).                    *)

\* The content of the output file.
Sink == Flatten(SubSeq(writes, 1, flushed))

WrIdle ==
  /\ pc = "idle" /\ writer = "txt" /\ segments = <<>> /\ handle = "none"
  /\ closes = 0 /\ writes = <<>> /\ flushed = 0 /\ idx = 0 /\ col = 0
  /\ attempts = 0 /\ raised = "none" /\ propagated = "none"

WrInit ==
  /\ pc = "call"
  /\ writer \in Writers
  /\ segments \in Results
  /\ handle = "none" /\ closes = 0
  /\ writes = <<>> /\ flushed = 0
  /\ idx = 0 /\ col = 0 /\ attempts = 0
  /\ raised = "none" /\ propagated = "none"

\* After open(): the first statement of the writer's write_result.
FirstStep(w) == CASE w \in {"vtt", "tsv"} -> "header" [] w = "json" -> "dump" [] OTHER -> "loop"

\* with open(output_path, "w", encoding="utf-8") as f: the open succeeds.
Open ==
  /\ pc = "call"
  /\ handle' = "open"
  /\ pc' = FirstStep(writer)
  /\ UNCHANGED <<writer, segments, closes, writes, flushed, idx, col, attempts,
                 raised, propagated>>
  /\ UNCHANGED <<tsVars, mdVars>>

\* open() raises: no handle is held, and the error leaves __call__.
OpenFail ==
  /\ pc = "call"
  /\ raised' = "open error"
  /\ propagated' = "open error"
  /\ pc' = "raised"
  /\ UNCHANGED <<writer, segments, handle, closes, writes, flushed, idx, col, attempts>>
  /\ UNCHANGED <<tsVars, mdVars>>

\* A body run without the with statement: an error leaves the handle open.
HandleLeftOpen == "open"

\* How the with statement leaves the handle when the body raises.
HandleAfterError == "closed"

\* What leaves __call__ when a write inside the body raised err.
Propagate(err) == err

\* WriteVTT / WriteTSV: the header print (no flush).
PrintHeader ==
  /\ pc = "header"
  /\ writes' = Append(writes, Header(writer))
  /\ attempts' = attempts + 1
  /\ pc' = "loop"
  /\ UNCHANGED <<writer, segments, handle, closes, flushed, idx, col, raised, propagated>>
  /\ UNCHANGED <<tsVars, mdVars>>

\* WriteTXT / WriteVTT / WriteSRT: the print of the next segment (flush=True).
PrintSegment ==
  /\ pc = "loop" /\ writer \in {"txt", "vtt", "srt"}
  /\ idx < Len(segments)
  /\ writes' = Append(writes, SegmentRendering(writer, segments, idx + 1))
  /\ flushed' = Len(writes) + 1
  /\ attempts' = attempts + 1
  /\ idx' = idx + 1
  /\ UNCHANGED <<pc, writer, segments, handle, closes, col, raised, propagated>>
  /\ UNCHANGED <<tsVars, mdVars>>

\* WriteTSV: the next of the three prints of a segment; the third flushes.
PrintCell ==
  /\ pc = "loop" /\ writer = "tsv"
  /\ idx < Len(segments)
  /\ writes' = Append(writes, TsvCell(segments[idx + 1], col))
  /\ attempts' = attempts + 1
  /\ IF col = 2
     THEN col' = 0 /\ idx' = idx + 1 /\ flushed' = Len(writes) + 1
     ELSE col' = col + 1 /\ UNCHANGED <<idx, flushed>>
  /\ UNCHANGED <<pc, writer, segments, handle, closes, raised, propagated>>
  /\ UNCHANGED <<tsVars, mdVars>>

\* WriteJSON: json.dump(result, file)
Dump ==
  /\ pc = "dump"
  /\ writes' = Append(writes, JsonDump(segments))
  /\ attempts' = attempts + 1
  /\ pc' = "dumped"
  /\ UNCHANGED <<writer, segments, handle, closes, flushed, idx, col, raised, propagated>>
  /\ UNCHANGED <<tsVars, mdVars>>

\* A print (or the dump) raises: it writes nothing, the with statement closes
\* the handle (which flushes what earlier prints left buffered) and the error
\* leaves __call__.
WriteFail ==
  /\ \/ pc \in {"header", "dump"}
     \/ pc = "loop" /\ idx < Len(segments)
  /\ attempts' = attempts + 1
  /\ raised' = "write error"
  /\ propagated' = Propagate("write error")
  /\ handle' = HandleAfterError
  /\ closes' = IF HandleAfterError = "closed" THEN closes + 1 ELSE closes
  /\ flushed' = IF HandleAfterError = "closed" THEN Len(writes) ELSE flushed
  /\ pc' = "raised"
  /\ UNCHANGED <<writer, segments, writes, idx, col>>
  /\ UNCHANGED <<tsVars, mdVars>>

\* write_result returns and the with statement closes the handle.
Close ==
  /\ \/ pc = "loop" /\ idx = Len(segments)
     \/ pc = "dumped"
  /\ handle' = "closed"
  /\ closes' = closes + 1
  /\ flushed' = Len(writes)
  /\ pc' = "done"
  /\ UNCHANGED <<writer, segments, writes, idx, col, attempts, raised, propagated>>
  /\ UNCHANGED <<tsVars, mdVars>>

-----------------------------------------------------------------------------
(* metadata.py: bytes, decoding and the PDF date parser to_date (20-32). *)

\* bytes.decode('utf-8') over the byte tokens of the model: an ASCII byte is
\* its character, the pair xC3 xA9 is one two-byte character, and a lone
\* xC3, a lone xA9 or xFF cannot be decoded.
RECURSIVE DecodeUtf8(_)
DecodeUtf8(b) ==
  IF Len(b) = 0 THEN [ok |-> TRUE, text |-> <<>>]
  ELSE IF b[1] = "xC3"
       THEN IF Len(b) >= 2 /\ b[2] = "xA9"
            THEN LET rest == DecodeUtf8(SubSeq(b, 3, Len(b)))
                 IN [ok |-> rest.ok, text |-> <<"e-acute">> \o rest.text]
            ELSE [ok |-> FALSE, text |-> <<>>]
       ELSE IF b[1] \in {"xA9", "xFF"}
            THEN [ok |-> FALSE, text |-> <<>>]
            ELSE LET rest == DecodeUtf8(Tail(b))
                 IN [ok |-> rest.ok, text |-> <<b[1]>> \o rest.text]

\* value.decode('utf-8') of a property value: a value that is no bytes
\* object (an indirect object, a number) has no decode and raises as well.
Decode(value) ==
  IF value.isBytes THEN DecodeUtf8(value.bytes) ELSE [ok |-> FALSE, text |-> <<>>]

\* int() of a field strptime matched; the day may be " 7".
FieldVal(f) == IF Len(f) = 2 /\ f[1] = " " THEN ParseNat(Tail(f)) ELSE ParseNat(f)

\* Whether f matches the regular expression strptime uses for a directive:
\*   %m 1[0-2]|0[1-9]|[1-9]        %d 3[0-1]|[1-2]\d|0[1-9]|[1-9]| [1-9]
\*   %H 2[0-3]|[0-1]\d|\d          %M [0-5]\d|\d       %S 6[0-1]|[0-5]\d|\d
DirectiveMatches(dir, f) ==
  CASE dir = 1 -> AllDigits(f) /\ FieldVal(f) \in 1..12
    [] dir = 2 -> \/ AllDigits(f) /\ FieldVal(f) \in 1..31
                  \/ Len(f) = 2 /\ f[1] = " " /\ IsDigit(f[2]) /\ f[2] # "0"
    [] dir = 3 -> AllDigits(f) /\ (Len(f) = 1 \/ FieldVal(f) \in 0..23)
    [] dir = 4 -> AllDigits(f) /\ (Len(f) = 1 \/ FieldVal(f) \in 0..59)
    [] OTHER -> AllDigits(f) /\ (Len(f) = 1 \/ FieldVal(f) \in 0..61)

\* The field of directive dir (1..5 for %m %d %H %M %S) when the fields have
\* the widths w, after the four characters of %Y.
FieldAt(s, w, dir) ==
  LET from == 5 + (IF dir > 1 THEN w[1] ELSE 0) + (IF dir > 2 THEN w[2] ELSE 0)
                + (IF dir > 3 THEN w[3] ELSE 0) + (IF dir > 4 THEN w[4] ELSE 0)
  IN SubSeq(s, from, from + w[dir] - 1)

\* Matching "%Y%m%d%H%M%S" from directive dir at position pos of s, as the
\* regular expression does: a directive's two-character alternatives are tried
\* before its one-character one, and a failure further on backtracks.  The
\* result is the widths of the fields from dir on, or NoMatch.
NoMatch == <<0>>

RECURSIVE MatchFrom(_, _, _)
MatchFrom(s, pos, dir) ==
  IF dir > 5 THEN <<>>
  ELSE LET two == IF pos + 1 <= Len(s) /\ DirectiveMatches(dir, SubSeq(s, pos, pos + 1))
                  THEN MatchFrom(s, pos + 2, dir + 1) ELSE NoMatch
       IN IF two # NoMatch THEN <<2>> \o two
          ELSE LET one == IF pos <= Len(s) /\ DirectiveMatches(dir, SubSeq(s, pos, pos))
                          THEN MatchFrom(s, pos + 1, dir + 1) ELSE NoMatch
               IN IF one # NoMatch THEN <<1>> \o one ELSE NoMatch

\* re.match of the format's expression on s: the widths of the five fields
\* after the four digits of %Y, or NoMatch.
Match(s) ==
  IF Len(s) >= 4 /\ AllDigits(SubSeq(s, 1, 4)) THEN MatchFrom(s, 5, 1) ELSE NoMatch

IsLeap(y) == (y % 4 = 0 /\ y % 100 # 0) \/ y % 400 = 0

DaysInMonth(y, mo) ==
  IF mo = 2 THEN (IF IsLeap(y) THEN 29 ELSE 28)
  ELSE IF mo \in {4, 6, 9, 11} THEN 30 ELSE 31

NoDate == [ok |-> FALSE, y |-> 0, mo |-> 0, d |-> 0, h |-> 0, mi |-> 0, s |-> 0]

\* time.strptime(s, "%Y%m%d%H%M%S"): ValueError (ok = FALSE) when the format
\* does not match, when text is left over after the match, or when the day
\* is not a day of the month.
strptime(s) ==
  LET w == Match(s)
  IN IF w = NoMatch THEN NoDate
     ELSE LET y == ParseNat(SubSeq(s, 1, 4))
              mo == FieldVal(FieldAt(s, w, 1))
              d == FieldVal(FieldAt(s, w, 2))
          IN IF 4 + w[1] + w[2] + w[3] + w[4] + w[5] # Len(s) THEN NoDate
             ELSE IF y < 1 \/ d > DaysInMonth(y, mo) THEN NoDate
             ELSE [ok |-> TRUE, y |-> y, mo |-> mo, d |-> d,
                   h |-> FieldVal(FieldAt(s, w, 3)),
                   mi |-> FieldVal(FieldAt(s, w, 4)),
                   s |-> FieldVal(FieldAt(s, w, 5))]

\* datetime.fromtimestamp(mktime(ts)): the same local time, with a seconds
\* field of 60 or 61 carried into the fields above it (local time without
\* daylight-saving changes).
FromMktime(t) ==
  IF t.s < 60 THEN t
  ELSE LET s2 == t.s - 60
           mi2 == IF t.mi = 59 THEN 0 ELSE t.mi + 1
           ch == t.mi = 59
           h2 == IF ch THEN (IF t.h = 23 THEN 0 ELSE t.h + 1) ELSE t.h
           cd == ch /\ t.h = 23
           last == t.d = DaysInMonth(t.y, t.mo)
           d2 == IF cd THEN (IF last THEN 1 ELSE t.d + 1) ELSE t.d
           cm == cd /\ last
           mo2 == IF cm THEN (IF t.mo = 12 THEN 1 ELSE t.mo + 1) ELSE t.mo
           y2 == IF cm /\ t.mo = 12 THEN t.y + 1 ELSE t.y
       IN [ok |-> TRUE, y |-> y2, mo |-> mo2, d |-> d2, h |-> h2, mi |-> mi2, s |-> s2]

\* date_str[2:-7]
DateCore(date_str) == SubSeq(date_str, 3, Len(date_str) - 7)

\* to_date: the datetime, or None (ok = FALSE) on ValueError.
to_date(date_str) ==
  LET ts == strptime(DateCore(date_str))
  IN IF ts.ok THEN FromMktime(ts) ELSE NoDate

\* datetime.isoformat()
isoformat(t) ==
  ZeroPad(IntStr(t.y), 4) \o <<"-">> \o ZeroPad(IntStr(t.mo), 2) \o <<"-">>
    \o ZeroPad(IntStr(t.d), 2) \o <<"T">> \o ZeroPad(IntStr(t.h), 2) \o <<":">>
    \o ZeroPad(IntStr(t.mi), 2) \o <<":">> \o ZeroPad(IntStr(t.s), 2)

-----------------------------------------------------------------------------
(* get_document_metadata (metadata.py 35-100). *)

\* InitialMetadata with the default of the pages parameter in place of it.
InitialMetadataDefaultPages(n) == [properties |-> [kind |-> "text", attrs |-> [pages |-> 1]]]

\* The metadata dictionary before the loop.
InitialMetadata(n) == [properties |-> [kind |-> "text", attrs |-> [pages |-> n]]]

\* metadata[key] = v
SetKey(md, key, v) == [x \in (DOMAIN md) \cup {key} |-> IF x = key THEN v ELSE md[x]]

\* [part.strip() for part in stripped_value.split(sep)]
StrippedParts(text, sep) ==
  LET parts == Split(text, sep) IN [k \in 1..Len(parts) |-> Strip(parts[k])]

\* The branch of key 'Author'.
AuthorBranch(md, value) ==
  LET dec == Decode(value)
      stripped_value == Strip(dec.text)
  IN IF dec.ok /\ Len(stripped_value) > 0
     THEN SetKey(md, "authors", StrippedParts(stripped_value, ";"))
     ELSE md

\* The branch of key 'Title' without "if len(stripped_value) > 0".
TitleBranchUnchecked(md, value) ==
  LET dec == Decode(value)
  IN IF dec.ok THEN SetKey(md, "title", Strip(dec.text)) ELSE md

\* The branch of key 'Title'.
TitleBranch(md, value) ==
  LET dec == Decode(value)
      stripped_value == Strip(dec.text)
  IN IF dec.ok /\ Len(stripped_value) > 0
     THEN SetKey(md, "title", stripped_value)
     ELSE md

\* The branch of key 'Keywords'.
KeywordsBranch(md, value) ==
  LET dec == Decode(value)
      stripped_value == Strip(dec.text)
  IN IF dec.ok /\ Len(stripped_value) > 0
     THEN SetKey(md, "keywords", StrippedParts(stripped_value, ","))
     ELSE md

\* The branches of keys 'CreationDate' and 'ModDate', storing under field.
DateBranch(md, value, field) ==
  LET dec == Decode(value)
      date == to_date(dec.text)
  IN IF dec.ok /\ date.ok THEN SetKey(md, field, isoformat(date)) ELSE md

\* One iteration of the loop over doc.info[0].items().
Iteration(md, key, value) ==
  CASE key = "Author" -> AuthorBranch(md, value)
    [] key = "Title" -> TitleBranch(md, value)
    [] key = "Keywords" -> KeywordsBranch(md, value)
    [] key = "CreationDate" -> DateBranch(md, value, "createdAt")
    [] key = "ModDate" -> DateBranch(md, value, "updatedAt")
    [] OTHER -> md

-----------------------------------------------------------------------------
(* The documents handed to get_document_metadata. *)

Bytes(b) == [isBytes |-> TRUE, bytes |-> b]
NotBytes == [isBytes |-> FALSE, bytes |-> <<>>]

\* The end of a PDF date: +00'00'
ZoneSuffix == <<"+", "0", "0", "'", "0", "0", "'">>
PdfDate(core) == Bytes(<<"D", ":">> \o core \o ZoneSuffix)

\* D:20230101120000+00'00'
DateValid == PdfDate(<<"2", "0", "2", "3", "0", "1", "0", "1", "1", "2", "0", "0", "0", "0">>)
\* D:2023111111+00'00': a core of 10 digits
DateShortCore == PdfDate(<<"2", "0", "2", "3", "1", "1", "1", "1", "1", "1">>)
\* D:20231111+00'00': a core of 8 digits
DateNoTime == PdfDate(<<"2", "0", "2", "3", "1", "1", "1", "1">>)
\* D:2023a101120000+00'00'
DateLetter == PdfDate(<<"2", "0", "2", "3", "a", "1", "0", "1", "1", "2", "0", "0", "0", "0">>)
\* D:202301 1000000+00'00': a blank in the core
DateBlank == PdfDate(<<"2", "0", "2", "3", "0", "1", " ", "1", "0", "0", "0", "0", "0", "0">>)
\* D:20230230120000+00'00': 30 February
DateFeb30 == PdfDate(<<"2", "0", "2", "3", "0", "2", "3", "0", "1", "2", "0", "0", "0", "0">>)
\* D:20231231235960+00'00': a leap second
DateLeapSecond == PdfDate(<<"2", "0", "2", "3", "1", "2", "3", "1", "2", "3", "5", "9", "6", "0">>)
\* D:2023: shorter than prefix and suffix together
DateTooShort == Bytes(<<"D", ":", "2", "0", "2", "3">>)
\* bytes that are not UTF-8
Undecodable == Bytes(<<"a", "xFF">>)

\* The values a document may hold under each key.
Options(key) ==
  CASE key = "Title" ->
         { Bytes(<<" ", "T", "xC3", "xA9", "\n">>), Bytes(<<" ", "\t">>), Undecodable }
    [] key = "Author" ->
         { Bytes(<<"J", " ", ";", "B", " ">>), NotBytes }
    [] key = "Keywords" ->
         { Bytes(<<"a", ",", " ", "b", " ", ",", "c">>) }
    [] key = "CreationDate" ->
         { DateValid, DateShortCore, DateLetter, DateBlank, DateFeb30,
           DateTooShort, Undecodable }
    [] key = "ModDate" ->
         { DateLeapSecond, DateNoTime }
    [] OTHER -> { Bytes(<<"p">>) }

\* 'Producer' stands for every key the loop has no branch for.
Keys == <<"Title", "Author", "Keywords", "CreationDate", "ModDate", "Producer">>

\* The property maps over the keys ks: each key absent, or with one of its values.
RECURSIVE MapsOver(_)
MapsOver(ks) ==
  IF Len(ks) = 0 THEN {<<>>}
  ELSE LET rest == MapsOver(Tail(ks))
       IN rest \cup {SetKey(m, Head(ks), v) : m \in rest, v \in Options(Head(ks))}

MdInit ==
  /\ mdPc = "call"
  /\ pages \in {1, MaxPages}
  /\ \/ info \in {"None", "[]"} /\ properties = <<>>
     \/ info = "[map]" /\ properties \in MapsOver(Keys)
  /\ pending = {}
  /\ metadata = <<>>

\* The dictionary is built; "if doc.info and len(doc.info) > 0" decides
\* whether the loop over doc.info[0] runs.
Begin ==
  /\ mdPc = "call"
  /\ metadata' = InitialMetadata(pages)
  /\ pending' = IF info = "[map]" THEN DOMAIN properties ELSE {}
  /\ mdPc' = "loop"
  /\ UNCHANGED <<info, properties, pages>>
  /\ UNCHANGED <<tsVars, wrVars>>

\* One iteration; the dictionary's order of keys is any order.
Iterate ==
  /\ mdPc = "loop"
  /\ \E key \in pending :
        /\ metadata' = Iteration(metadata, key, properties[key])
        /\ pending' = pending \ {key}
  /\ UNCHANGED <<mdPc, info, properties, pages>>
  /\ UNCHANGED <<tsVars, wrVars>>

\* return metadata
Return ==
  /\ mdPc = "loop" /\ pending = {}
  /\ mdPc' = "done"
  /\ UNCHANGED <<info, properties, pages, pending, metadata>>
  /\ UNCHANGED <<tsVars, wrVars>>

-----------------------------------------------------------------------------
(* Specifications. *)

MdIdle ==
  /\ mdPc = "idle" /\ info = "None" /\ properties = <<>> /\ pages = 1
  /\ pending = {} /\ metadata = <<>>

\* format_timestamp applied to one input.
TsSpecInit == TsInit /\ WrIdle /\ MdIdle

TsNext == FormatTimestamp

SpecTimestamp == TsSpecInit /\ [][TsNext]_vars

\* One invocation of a writer.
WrNext ==
  \/ Open
  \/ OpenFail
  \/ PrintHeader
  \/ PrintSegment
  \/ PrintCell
  \/ Dump
  \/ WriteFail
  \/ Close

WrSpecInit == WrInit /\ TsIdle /\ MdIdle

SpecWriter == WrSpecInit /\ [][WrNext]_vars

\* One call of get_document_metadata.
MdSpecInit == MdInit /\ TsIdle /\ WrIdle

MdNext ==
  \/ Begin
  \/ Iterate
  \/ Return

SpecMetadata == MdSpecInit /\ [][MdNext]_vars

-----------------------------------------------------------------------------
(* Reading a formatted timestamp back. *)

\* The digit fields of a timestamp [HH:]MM:SS<marker>mmm, split at the colons
\* and at the first character of the marker; hours is <<>> when there is no
\* hours field.
TsFields(ts, marker) ==
  LET f == Split(ts, ":")
      n == Len(f)
      tail == Split(f[n], marker[1])
  IN [hours |-> IF n = 3 THEN f[1] ELSE <<>>,
      colons |-> n - 1,
      minutes |-> IF n >= 2 THEN f[n - 1] ELSE <<>>,
      secs |-> tail[1],
      ms |-> IF Len(tail) = 2 THEN tail[2] ELSE <<>>]

\* The milliseconds a timestamp stands for.
TsValue(ts, marker) ==
  LET f == TsFields(ts, marker)
  IN ParseNat(f.hours) * MsPerHour + ParseNat(f.minutes) * MsPerMinute
       + ParseNat(f.secs) * MsPerSecond + ParseNat(f.ms)

\* The number of decimal digits of n >= 0.
RECURSIVE NumDigits(_)
NumDigits(n) == IF n < 10 THEN 1 ELSE 1 + NumDigits(n \div 10)

\* The rounded milliseconds and the hour count of the input of the call.
InputMs == RoundMs(seconds)
InputHours == InputMs \div MsPerHour
HoursShown == always_include_hours \/ InputHours > 0

-----------------------------------------------------------------------------
(* Claims about format_timestamp, under SpecTimestamp. *)

\* C2 (as stated): whenever the hours field is shown, the output is exactly
\* two hour digits, ':', two minute digits, ':', two second digits, the
\* marker and three millisecond digits: its length is 11 + len(marker), the
\* colons are at positions 3 and 6, the marker is at position 9, and the two
\* hour digits are the hour count, not truncated.
C2_FixedPattern ==
  (tsPc = "return" /\ HoursShown) =>
     /\ Len(tsResult) = 11 + Len(decimal_marker)
     /\ tsResult[3] = ":" /\ tsResult[6] = ":"
     /\ SubSeq(tsResult, 9, 8 + Len(decimal_marker)) = decimal_marker
     /\ AllDigits(SubSeq(tsResult, 1, 2))
     /\ ParseNat(SubSeq(tsResult, 1, 2)) = InputHours

\* C2 (amended): whenever the hours field is shown, the output is the hour
\* count in decimal, zero-padded to at least two digits and never truncated
\* (hd digits: two below 100 hours, more from 100 hours on), ':', two minute
\* digits, ':', two second digits, the marker and three millisecond digits:
\* its length is 9 + hd + len(marker), the colons are at positions hd + 1 and
\* hd + 4 and the marker is at position hd + 7; below 100 hours that is the
\* fixed pattern with the colons at 3 and 6 and the marker at 9.
C2_HoursWiden ==
  (tsPc = "return" /\ HoursShown) =>
     LET hd == IF InputHours < 100 THEN 2 ELSE NumDigits(InputHours)
         m == Len(decimal_marker)
     IN /\ Len(tsResult) = 9 + hd + m
        /\ tsResult[hd + 1] = ":" /\ tsResult[hd + 4] = ":"
        /\ SubSeq(tsResult, hd + 7, hd + 6 + m) = decimal_marker
        /\ AllDigits(SubSeq(tsResult, 1, hd))
        /\ ParseNat(SubSeq(tsResult, 1, hd)) = InputHours
        /\ AllDigits(SubSeq(tsResult, hd + 2, hd + 3))
        /\ AllDigits(SubSeq(tsResult, hd + 5, hd + 6))
        /\ AllDigits(SubSeq(tsResult, hd + 7 + m, hd + 9 + m))
        /\ (InputHours < 100 =>
              /\ Len(tsResult) = 11 + m
              /\ tsResult[3] = ":" /\ tsResult[6] = ":"
              /\ SubSeq(tsResult, 9, 8 + m) = decimal_marker)

\* C2 witness: a time of 100 hours or more has been formatted, and its hours
\* field took three digits.
C2_Witness ==
  /\ tsPc = "return" /\ InputHours >= 100
  /\ Len(tsResult) = 12 + Len(decimal_marker)
  /\ tsResult[4] = ":"

\* C3: the fields h, m, s, ms that format_timestamp renders satisfy
\* h*3,600,000 + m*60,000 + s*1,000 + ms = round(seconds*1000) with m < 60,
\* s < 60 and ms < 1000; h is shown on at least two digits, m and s on two,
\* ms on three; the hours field is left out exactly when h = 0 and
\* always_include_hours is false; format_timestamp(0) = "00:00.000" and
\* format_timestamp(3661.5, always_include_hours=True) = "01:01:01.500".
C3_Decomposition ==
  tsPc = "return" =>
     LET f == TsFields(tsResult, decimal_marker)
     IN /\ AllDigits(f.hours) /\ AllDigits(f.minutes)
        /\ AllDigits(f.secs) /\ AllDigits(f.ms)
        /\ Len(f.minutes) = 2 /\ Len(f.secs) = 2 /\ Len(f.ms) = 3
        /\ f.colons \in {1, 2}
        /\ (f.colons = 2 => Len(f.hours) >= 2)
        /\ ParseNat(f.minutes) < 60 /\ ParseNat(f.secs) < 60 /\ ParseNat(f.ms) < 1000
        /\ TsValue(tsResult, decimal_marker) = InputMs
        /\ (f.colons = 1 <=> (InputHours = 0 /\ ~always_include_hours))
        /\ ((seconds = 0 /\ ~always_include_hours /\ decimal_marker = <<".">>)
              => tsResult = <<"0", "0", ":", "0", "0", ".", "0", "0", "0">>)
        /\ ((seconds = 7323000 /\ always_include_hours /\ decimal_marker = <<".">>)
              => tsResult = <<"0", "1", ":", "0", "1", ":", "0", "1", ".", "5", "0", "0">>)

\* C3 witness: 59 min 59.9995 s has been formatted; the tie rounds up to the
\* even millisecond and carries into the hours field.
C3_Witness ==
  /\ tsPc = "return" /\ seconds = 7199999 /\ ~always_include_hours
  /\ tsResult = <<"0", "1", ":", "0", "0", ":", "0", "0">> \o decimal_marker \o <<"0", "0", "0">>

-----------------------------------------------------------------------------
(* Reading the output of a writer back. *)

\* s after its first n line breaks.
RECURSIVE AfterLines(_, _)
AfterLines(s, n) ==
  IF n = 0 \/ Positions(s, "\n") = {} THEN s
  ELSE LET p == CHOOSE k \in Positions(s, "\n") : \A j \in Positions(s, "\n") : k <= j
       IN AfterLines(SubSeq(s, p + 1, Len(s)), n - 1)

\* The places where p occurs in s.
Occurrences(s, p) == {k \in 1..(Len(s) - Len(p) + 1) : SubSeq(s, k, k + Len(p) - 1) = p}

\* t is s without its leading and trailing whitespace.
IsTrimOf(t, s) ==
  \E a \in 1..(Len(s) + 1), b \in 0..Len(s) :
     /\ t = SubSeq(s, a, b)
     /\ \A j \in 1..(a - 1) : s[j] \in Whitespace
     /\ \A j \in (b + 1)..Len(s) : s[j] \in Whitespace
     /\ Len(t) > 0 => (t[1] \notin Whitespace /\ t[Len(t)] \notin Whitespace)

\* The cues a subtitle writer has printed: every print but the header's.
Cues == IF writer = "vtt" THEN SubSeq(writes, 2, Len(writes)) ELSE writes

\* The lines of a cue before the segment's text: the timestamps, and for
\* SubRip the index before them.
CueHeadLines == IF writer = "srt" THEN 2 ELSE 1

\* The renderings of the first n segments, one after the other.
Renderings(n) == Flatten([k \in 1..n |-> SegmentRendering(writer, segments, k)])

-----------------------------------------------------------------------------
(* Claims about the writers, under SpecWriter. *)

\* C1: the text that WriteVTT and WriteSRT emit for a segment never contains
\* '-->'; the only '-->' of an emitted cue is the separator between its two
\* timestamps.
C1_NoArrowInText ==
  writer \in {"vtt", "srt"} =>
     \A k \in 1..Len(Cues) :
        /\ ~Contains(AfterLines(Cues[k], CueHeadLines), Arrow)
        /\ Cardinality(Occurrences(Cues[k], Arrow)) = 1

\* C4: for every textual writer, in every state of a run (a failed write
\* included), the file holds nothing, or the header followed by the complete
\* renderings of the first j segments for some j: never a part of a
\* segment's rendering.
C4_AllOrNothing ==
  (writer \in Textual /\ pc # "idle") =>
     \/ Sink = <<>>
     \/ \E j \in 0..Len(segments) : Sink = Header(writer) \o Renderings(j)

C9_HandleReleased ==
  /\ (pc \in {"done", "raised"} => handle # "open")
  /\ (pc = "raised" => raised \in {"open error", "write error"})
  /\ ((pc = "raised" /\ raised = "open error") =>
        /\ handle = "none" /\ closes = 0 /\ propagated = "open error"
        /\ attempts = 0 /\ writes = <<>>)
  /\ ((pc = "raised" /\ raised = "write error") =>
        /\ handle = "closed" /\ closes = 1 /\ propagated = "write error"
        /\ attempts = Len(writes) + 1)
  /\ (pc = "done" =>
        /\ handle = "closed" /\ closes = 1
        /\ raised = "none" /\ propagated = "none"
        /\ attempts = Len(writes)
        /\ (writer \in Textual => idx = Len(segments)))
  /\ (pc \notin {"done", "raised"} => closes = 0)

\* C9 witness: a write failed after earlier writes had succeeded, and the
\* handle is closed.
C9_Witness ==
  /\ pc = "raised" /\ raised = "write error" /\ Len(writes) >= 2
  /\ handle = "closed"

\* C10: WriteSRT emits one cue block per segment in input order; the k-th
\* block carries index k (from 1, rising by 1); both timestamps of a block
\* have the hours field and ',' as decimal marker; nothing is emitted for a
\* result without segments.
C10_SrtBlocks ==
  writer = "srt" =>
     /\ Len(writes) = idx /\ idx <= Len(segments)
     /\ \A k \in 1..Len(writes) :
           LET lines == Split(writes[k], "\n")
               tl == Split(lines[2], " ")
               seg == segments[k]
           IN /\ Len(lines[1]) >= 1 /\ AllDigits(lines[1]) /\ ParseNat(lines[1]) = k
              /\ Len(tl) = 3 /\ tl[2] = Arrow
              /\ \A ts \in {tl[1], tl[3]} :
                    /\ TsFields(ts, <<",">>).colons = 2
                    /\ Len(TsFields(ts, <<",">>).hours) >= 2
                    /\ Len(TsFields(ts, <<",">>).ms) = 3
                    /\ Positions(ts, ".") = {}
              /\ TsValue(tl[1], <<",">>) = RoundMs(seg.start)
              /\ TsValue(tl[3], <<",">>) = RoundMs(seg.end)
              /\ AfterLines(writes[k], 2) = CueText(seg.text) \o NL \o NL
     /\ (pc = "done" => (Len(writes) = Len(segments) /\ Sink = Flatten(writes)))
     /\ ((pc = "done" /\ Len(segments) = 0) => Sink = <<>>)

\* C10 witness: WriteSRT has finished a result of two or more segments.
C10_Witness == writer = "srt" /\ pc = "done" /\ Len(segments) >= 2 /\ Len(writes) >= 2

-----------------------------------------------------------------------------
(* Claims about get_document_metadata, under SpecMetadata. *)

OptionalKeys == {"authors", "title", "keywords", "createdAt", "updatedAt"}

\* The key of the property map an optional key of the record comes from.
SourceKey(opt) ==
  CASE opt = "authors" -> "Author"
    [] opt = "title" -> "Title"
    [] opt = "keywords" -> "Keywords"
    [] opt = "createdAt" -> "CreationDate"
    [] OTHER -> "ModDate"

\* A date value that cannot be decoded, or whose core (between the 2-character
\* prefix and the 7-character suffix) is not 14 characters, or not all digits.
Malformed(value) ==
  LET dec == Decode(value)
  IN \/ ~dec.ok
     \/ Len(DateCore(dec.text)) # 14
     \/ ~AllDigits(DateCore(dec.text))

\* A value that decodes and is not empty once trimmed.
ValidText(value) == Decode(value).ok /\ Len(Strip(Decode(value).text)) > 0

\* C5: a map holding a malformed CreationDate (undecodable, wrong length or
\* non-numeric core) beside valid Title, Author and Keywords gives, in any
\* order of the keys, a record without 'createdAt' and with 'title',
\* 'authors' and 'keywords' as each would be were it the only key.
C5_MalformedDateOmitted ==
  (/\ mdPc = "done" /\ info = "[map]"
   /\ {"CreationDate", "Title", "Author", "Keywords"} \subseteq DOMAIN properties
   /\ Malformed(properties["CreationDate"])
   /\ ValidText(properties["Title"])
   /\ ValidText(properties["Author"])
   /\ ValidText(properties["Keywords"]))
  => /\ "createdAt" \notin DOMAIN metadata
     /\ {"title", "authors", "keywords"} \subseteq DOMAIN metadata
     /\ metadata["title"] = TitleBranch(InitialMetadata(pages), properties["Title"])["title"]
     /\ metadata["authors"] = AuthorBranch(InitialMetadata(pages), properties["Author"])["authors"]
     /\ metadata["keywords"]
          = KeywordsBranch(InitialMetadata(pages), properties["Keywords"])["keywords"]

\* C6: the record always holds properties.kind = 'text' and
\* properties.attrs.pages = N; for an absent (None or an empty list) or empty
\* property map the returned record holds nothing else.
C6_PropertiesOnly ==
  /\ (mdPc \in {"loop", "done"} =>
        /\ "properties" \in DOMAIN metadata
        /\ metadata["properties"] = [kind |-> "text", attrs |-> [pages |-> pages]])
  /\ ((mdPc = "done" /\ (info \in {"None", "[]"} \/ DOMAIN properties = {})) =>
        DOMAIN metadata = {"properties"})

\* C6 witness: the call has returned for a document of several pages whose
\* property map is there and empty.
C6_Witness ==
  /\ mdPc = "done" /\ info = "[map]" /\ DOMAIN properties = {} /\ pages > 1
  /\ DOMAIN metadata = {"properties"}

\* C7: an optional key is in the record only if its source key is in the
\* property map, its value decoded, and the decoded value is not empty once
\* trimmed (and, for the two dates, parsed); no other key adds anything.
C7_OptionalOnlyFromSource ==
  /\ DOMAIN metadata \subseteq ({"properties"} \cup OptionalKeys)
  /\ \A opt \in (DOMAIN metadata) \cap OptionalKeys :
        /\ info = "[map]"
        /\ SourceKey(opt) \in DOMAIN properties
        /\ LET dec == Decode(properties[SourceKey(opt)])
           IN /\ dec.ok
              /\ Len(Strip(dec.text)) > 0
              /\ (opt \in {"createdAt", "updatedAt"} => to_date(dec.text).ok)

\* C7 witness: the call has returned for a map with a Title that decodes to
\* blanks only, an unrecognised key and an Author: the record has authors
\* and no title.
C7_Witness ==
  /\ mdPc = "done" /\ info = "[map]"
  /\ {"Title", "Producer", "Author"} \subseteq DOMAIN properties
  /\ Decode(properties["Title"]).ok /\ Strip(Decode(properties["Title"]).text) = <<>>
  /\ "authors" \in DOMAIN metadata /\ "title" \notin DOMAIN metadata

====
